---------------------------- MODULE Spec2Model ----------------------------
(***************************************************************************)
(* Model of the YouTube search-and-filter routine of src/mymcp.py:         *)
(*   parse_iso8601_duration   (lines 410-429)                              *)
(*   get_youtube_search_result (lines 432-524)                             *)
(*                                                                         *)
(* Strings that the code inspects character by character (titles,          *)
(* durations, view counts) are sequences of one-character strings.  A      *)
(* Hangul syllable is written as its code point, e.g. "U+BAA8".            *)
(* Diagnostic texts are the code's literals rendered in English.           *)
(***************************************************************************)
EXTENDS Integers, Sequences, FiniteSets, TLC

VARIABLES
    pc,                  \* position of the coroutine: idle, build, search, detail, done
    api_key,             \* the credential handed to the call ("" = not configured)
    search_calls,        \* number of search requests executed
    search_error,        \* the failure the search request raised, if it did
    catalog,             \* the provider's ranked catalogue for the query
    search_items,        \* search_response["items"] as received
    potential_video_ids, \* ids that survived the keyword screen
    final_video_ids,     \* ids that survived the duration / view filters so far
    i,                   \* loop variable of the batch loop (offset of the batch)
    batch_log,           \* one record per detail request issued, in order
    result,              \* what the call produced: a returned pair or a raised fault
    duration_str,        \* input of parse_iso8601_duration (pure-function specification)
    parsed,              \* its outcome
    emotion_summary,     \* argument of recommend_bgm_for_summary
    search_query,        \* the query it composed and submitted
    bgm_result,          \* what recommend_bgm_for_summary returned
    notion_pc,           \* position of add_notion_page: idle, posting, done
    notion_args,         \* its arguments
    notion_requests,     \* the page-creation requests sent to Notion, in order
    notion_result,       \* the text it returned
    worker               \* the thread of asyncio.to_thread: idle, or running a request

\* the state of the two tools around the search routine
bgmVars == <<emotion_summary, search_query, bgm_result>>
notionVars == <<notion_pc, notion_args, notion_requests, notion_result>>

vars == <<pc, api_key, search_calls, search_error, catalog, search_items, potential_video_ids,
          final_video_ids, i, batch_log, result, duration_str, parsed,
          bgmVars, notionVars, worker>>

---------------------------------------------------------------------------
(* Bounds of the model *)

\* search responses of 0..MaxShort items are enumerated
MaxShort == 7
\* and responses of BatchSize+1 .. BatchSize+MaxOver items (a second batch)
MaxOver == 2
\* digits per numeric component of an enumerated duration string
MaxDigits == 2

---------------------------------------------------------------------------
(* Program constants, get_youtube_search_result *)

MIN_DURATION_SEC == 180
MAX_DURATION_SEC == 300
MIN_VIEW_COUNT == 10000
\* step of range(0, len(potential_video_ids), 50) and width of the slice [i:i+50]
BatchSize == 50
\* final_video_ids[:5]
MaxResults == 5

\* PLAYLIST_KEYWORDS, in the code's order
PLAYLIST_KEYWORDS ==
    << <<"p","l","a","y","l","i","s","t">>,
       <<"U+D50C","U+B808","U+C774","U+B9AC","U+C2A4","U+D2B8">>,
       <<"U+BAA8","U+C74C">>,
       <<"m","i","x">>,
       <<"U+BA54","U+B4E4","U+B9AC">>,
       <<"m","e","d","l","e","y">>,
       <<"U+C5F0","U+C18D","U+B4E3","U+AE30">>,
       <<"c","o","l","l","e","c","t","i","o","n">>,
       <<"U+D2B8","U+B85C","U+D2B8">> >>

\* a value that stands for an absent key / Python None
Absent == <<"<absent>">>

---------------------------------------------------------------------------
(* Sequence helpers *)

Range(s) == {s[k] : k \in DOMAIN s}

\* s[:n]
Take(s, n) == SubSeq(s, 1, IF n < Len(s) THEN n ELSE Len(s))

Reverse(s) == [k \in 1..Len(s) |-> s[Len(s) + 1 - k]]

\* needle in haystack  (Python's substring test on str)
Contains(haystack, needle) ==
    \E k \in 0..(Len(haystack) - Len(needle)) :
        SubSeq(haystack, k + 1, k + Len(needle)) = needle

StartsWith(s, prefix) ==
    Len(s) >= Len(prefix) /\ SubSeq(s, 1, Len(prefix)) = prefix

---------------------------------------------------------------------------
(* str.lower() *)

UpperLetters == <<"A","B","C","D","E","F","G","H","I","J","K","L","M",
                  "N","O","P","Q","R","S","T","U","V","W","X","Y","Z">>
LowerLetters == <<"a","b","c","d","e","f","g","h","i","j","k","l","m",
                  "n","o","p","q","r","s","t","u","v","w","x","y","z">>

LowerChar(c) ==
    IF \E k \in DOMAIN UpperLetters : UpperLetters[k] = c
    THEN LowerLetters[CHOOSE k \in DOMAIN UpperLetters : UpperLetters[k] = c]
    ELSE c

Lower(s) == [k \in DOMAIN s |-> LowerChar(s[k])]

---------------------------------------------------------------------------
(* Decimal numbers: \d+ and int() *)

DigitChars == <<"0","1","2","3","4","5","6","7","8","9">>

IsDigit(c) == \E k \in DOMAIN DigitChars : DigitChars[k] = c

DigitVal(c) == (CHOOSE k \in DOMAIN DigitChars : DigitChars[k] = c) - 1

RECURSIVE DecimalValue(_)
DecimalValue(s) ==
    IF s = <<>> THEN 0
    ELSE 10 * DecimalValue(SubSeq(s, 1, Len(s) - 1)) + DigitVal(s[Len(s)])

AllDigits(s) == Len(s) > 0 /\ \A k \in DOMAIN s : IsDigit(s[k])

---------------------------------------------------------------------------
(* parse_iso8601_duration *)

\* end of the longest run of digits of s that starts at position p
\* (the position of the first character after the run)
RECURSIVE DigitsEnd(_, _)
DigitsEnd(s, p) ==
    IF p <= Len(s) /\ IsDigit(s[p]) THEN DigitsEnd(s, p + 1) ELSE p

\* one optional group (?:(\d+)X)? tried at position p: \d+ is greedy and must
\* be followed by the unit letter, so the group either takes the whole digit
\* run or is skipped
Group(s, p, unit) ==
    LET e == DigitsEnd(s, p)
    IN  IF e > p /\ e <= Len(s) /\ s[e] = unit
        THEN [present |-> TRUE, text |-> SubSeq(s, p, e - 1), next |-> e + 1]
        ELSE [present |-> FALSE, text |-> <<>>, next |-> p]

\* re.match(r'P(?:(\d+)D)?T(?:(\d+)H)?(?:(\d+)M)?(?:(\d+)S)?', s): the groups
\* of the match, or matched = FALSE.  The match is anchored at the start only.
DurationMatch(s) ==
    IF Len(s) = 0 \/ s[1] # "P"
    THEN [matched |-> FALSE]
    ELSE LET d == Group(s, 2, "D")
         IN  IF ~(d.next <= Len(s) /\ s[d.next] = "T")
             THEN [matched |-> FALSE]
             ELSE LET h  == Group(s, d.next + 1, "H")
                      m  == Group(s, h.next, "M")
                      sc == Group(s, m.next, "S")
                  IN  [matched |-> TRUE, days |-> d, hours |-> h,
                       minutes |-> m, seconds |-> sc, end |-> sc.next]

\* a group that did not take part counts as 0 (it is not passed to timedelta)
GroupValue(g) == IF g.present THEN DecimalValue(g.text) ELSE 0

\* int(timedelta(**time_params).total_seconds())
TimedeltaSeconds(mt) ==
    GroupValue(mt.days) * 86400 + GroupValue(mt.hours) * 3600
        + GroupValue(mt.minutes) * 60 + GroupValue(mt.seconds)

\* the guard of line 412: not duration_str or duration_str.startswith('P0')
ZeroGuard(s) == s = Absent \/ s = <<>> \/ StartsWith(s, <<"P", "0">>)

parse_iso8601_duration(s) ==
    IF ZeroGuard(s) THEN 0
    ELSE LET mt == DurationMatch(s)
         IN  IF ~mt.matched THEN 0 ELSE TimedeltaSeconds(mt)

---------------------------------------------------------------------------
(* Values exchanged with the providers and with the caller *)

VideoKind == "youtube#video"
ChannelKind == "youtube#channel"

\* api_key values: None, the empty string, a configured key
NoneKey == "<None>"
ApiKeys == {NoneKey, "", "AIzaKey"}

\* `not api_key`
NotConfigured(key) == key = NoneKey \/ key = ""

\* googleapiclient.errors.HttpError (status, content) and other failures of a
\* request (a transport error, a timeout)
HttpErrors ==
    { [type |-> "HttpError", status |-> "403", content |-> "quotaExceeded"],
      [type |-> "HttpError", status |-> "401", content |-> "keyInvalid"] }
OtherErrors == { [type |-> "TimeoutError", text |-> "timed out"] }
NoError == [type |-> "none"]
\* asyncio.CancelledError derives from BaseException, not from Exception
CancelledError == [type |-> "CancelledError", text |-> ""]
NotAnException == {"CancelledError"}
KeyErrorOf(key) == [type |-> "KeyError", text |-> key]

\* the outcome of a call: nothing yet, a returned (list, message) pair, or a
\* fault raised to the caller
NoResult == [kind |-> "none"]
Returned(ids, message) == [kind |-> "returned", ids |-> ids, message |-> message]
Raised(exc) == [kind |-> "raised", exc |-> exc]

\* the diagnostic texts (lines 439, 472, 516, 519, 524)
MsgNoKey == <<"YouTube API key is not configured.">>
MsgNoNonPlaylist == <<"No non-playlist video in the search results.">>
MsgNoneQualifies == <<"No video in the search results meets the conditions (3-5 min, 10k+ views, single track).">>
MsgHttpErrorNoDetail(e) == <<"YouTube API error">>
MsgHttpError(e) == <<"YouTube API error: ", e.status, ", ", e.content>>
MsgUnexpected(e) == <<"Error during YouTube search: ", e.text>>

---------------------------------------------------------------------------
(* get_youtube_search_result: the pure parts *)

\* lines 465-467: any(keyword in title.lower() for keyword in PLAYLIST_KEYWORDS)
IsPlaylistCaseSensitive(title) ==
    \E k \in DOMAIN PLAYLIST_KEYWORDS : Contains(title, PLAYLIST_KEYWORDS[k])
IsPlaylist(title) ==
    LET lowered == Lower(title)
    IN  \E k \in DOMAIN PLAYLIST_KEYWORDS : Contains(lowered, PLAYLIST_KEYWORDS[k])

\* lines 461-469: the ids appended to potential_video_ids, in response order.
\* An item of kind video without a title raises KeyError (ScreenRaises).
RECURSIVE KeywordScreen(_)
KeywordScreen(items) ==
    IF items = <<>> THEN <<>>
    ELSE LET item == Head(items)
             rest == KeywordScreen(Tail(items))
         IN  IF item.kind = VideoKind /\ ~IsPlaylist(item.title)
             THEN <<item.videoId>> \o rest
             ELSE rest

ScreenRaises(items) ==
    \E k \in DOMAIN items : items[k].kind = VideoKind /\ items[k].title = Absent

\* truthiness of a str-or-None field (line 494)
Truthy(field) == field # Absent /\ field # <<>>

\* int(view_count_str): an optional sign and decimal digits, ValueError otherwise
IntParses(s) ==
    \/ AllDigits(s)
    \/ Len(s) > 1 /\ s[1] \in {"+", "-"} /\ AllDigits(Tail(s))
IntValue(s) ==
    IF s[1] = "-" THEN 0 - DecimalValue(Tail(s))
    ELSE IF s[1] = "+" THEN DecimalValue(Tail(s))
    ELSE DecimalValue(s)

\* line 497
DurationInWindowOffByOne(d) == MIN_DURATION_SEC - 1 <= d /\ d <= MAX_DURATION_SEC + 1
DurationInWindow(d) == MIN_DURATION_SEC <= d /\ d <= MAX_DURATION_SEC

\* lines 491-506: whether an item of a detail response is appended
KeepItem(item) ==
    /\ Truthy(item.duration) /\ Truthy(item.viewCount)
    /\ DurationInWindow(parse_iso8601_duration(item.duration))
    /\ IntParses(item.viewCount)
    /\ IntValue(item.viewCount) >= MIN_VIEW_COUNT

\* lines 485-506: the ids one response appends to final_video_ids, in the
\* order of the response
RECURSIVE FilterItems(_)
FilterItems(items) ==
    IF items = <<>> THEN <<>>
    ELSE IF KeepItem(Head(items))
         THEN <<Head(items).id>> \o FilterItems(Tail(items))
         ELSE FilterItems(Tail(items))

\* potential_video_ids[i:i+50]
BatchIds(ids, offset) ==
    SubSeq(ids, offset + 1,
           IF offset + BatchSize < Len(ids) THEN offset + BatchSize ELSE Len(ids))

\* lines 513-516
NoTruncation(final) ==
    IF final # <<>> THEN Returned(final, Absent)
    ELSE Returned(<<>>, MsgNoneQualifies)
FinalResultSilent(final) == Returned(Take(final, MaxResults), Absent)
FinalResult(final) ==
    IF final # <<>> THEN Returned(Take(final, MaxResults), Absent)
    ELSE Returned(<<>>, MsgNoneQualifies)

\* lines 518-524: the handlers of the outer try
OuterHandlerHttpOnly(exc) ==
    IF exc.type = "HttpError" THEN Returned(<<>>, MsgHttpError(exc))
    ELSE Raised(exc)
OuterHandler(exc) ==
    IF exc.type = "HttpError" THEN Returned(<<>>, MsgHttpError(exc))
    ELSE IF exc.type \in NotAnException THEN Raised(exc)
    ELSE Returned(<<>>, MsgUnexpected(exc))

---------------------------------------------------------------------------
(* The providers: what a search and a detail request may answer *)

TitleCalm == <<"C","a","l","m"," ","S","o","n","g">>
TitleMixUpper == <<"O","f","f","i","c","i","a","l"," ","M","I","X">>
TitleMixLower == <<"o","f","f","i","c","i","a","l"," ","m","i","x">>
\* "healing" + the keyword U+BAA8 U+C74C
TitleHangul == <<"U+D790","U+B9C1"," ","U+BAA8","U+C74C">>

PT2M59S == <<"P","T","2","M","5","9","S">>
PT3M == <<"P","T","3","M">>
PT3M30S == <<"P","T","3","M","3","0","S">>
PT5M == <<"P","T","5","M">>
PT5M1S == <<"P","T","5","M","1","S">>
P0DT3M30S == <<"P","0","D","T","3","M","3","0","S">>
\* strings that are no duration: one the pattern does not match at all, one
\* it matches up to a trailing character
NotADuration == <<"n","o","n","e">>
PT3M30SX == <<"P","T","3","M","3","0","S","X">>

Views9999 == <<"9","9","9","9">>
Views10000 == <<"1","0","0","0","0">>
Views250000 == <<"2","5","0","0","0","0">>
ViewsUnparsable == <<"1","e","4">>

Video(title, duration, viewCount) ==
    [kind |-> VideoKind, title |-> title, duration |-> duration, viewCount |-> viewCount]

\* the kinds of entry the provider's catalogue holds
Profiles ==
    { Video(TitleCalm, PT3M, Views10000),
      Video(TitleCalm, PT5M, Views10000),
      Video(TitleCalm, PT2M59S, Views250000),
      Video(TitleCalm, PT5M1S, Views250000),
      Video(TitleCalm, PT3M30S, Views9999),
      Video(TitleCalm, P0DT3M30S, Views10000),
      Video(TitleCalm, NotADuration, Views10000),
      Video(TitleCalm, PT3M30SX, Views10000),
      Video(TitleCalm, Absent, Views10000),
      Video(TitleCalm, PT3M30S, Absent),
      Video(TitleCalm, PT3M30S, ViewsUnparsable),
      Video(TitleMixUpper, PT3M30S, Views10000),
      Video(TitleMixLower, PT3M30S, Views10000),
      Video(TitleHangul, PT3M30S, Views10000),
      Video(Absent, PT3M30S, Views10000),
      [kind |-> ChannelKind, title |-> TitleCalm, duration |-> Absent, viewCount |-> Absent] }

\* how many items a search response may list: none, a few, and more than one
\* batch of detail lookups
ResponseLengths == (0..MaxShort) \cup ((BatchSize + 1)..(BatchSize + MaxOver))

\* a ranked catalogue: n entries that alternate between two profiles; the
\* identifier of an entry is its rank
Catalogues ==
    { [p \in 1..n |-> IF p % 2 = 1 THEN pair[1] ELSE pair[2]] :
        n \in ResponseLengths, pair \in Profiles \X Profiles }

\* search_response["items"] for a catalogue
SearchItems(cat) ==
    [p \in DOMAIN cat |-> [kind |-> cat[p].kind, videoId |-> p, title |-> cat[p].title]]

\* an item of a videos().list response
DetailItem(cat, id) ==
    [id |-> id, duration |-> cat[id].duration, viewCount |-> cat[id].viewCount]

\* the responses to a request for the ids of batch: the items of the requested
\* ids, in the requested or the opposite order, all of them or all but one
DetailResponses(cat, batch) ==
    LET all == [k \in DOMAIN batch |-> DetailItem(cat, batch[k])]
    IN  {all, Reverse(all), Tail(all), Reverse(Tail(all))}

---------------------------------------------------------------------------
(* The tools that are not running *)

\* recommend_bgm_for_summary is not the caller
BgmIdle ==
    /\ emotion_summary = Absent
    /\ search_query = Absent
    /\ bgm_result = NoResult

\* add_notion_page is not called
NotionIdle ==
    /\ notion_pc = "unused"
    /\ notion_args = NoResult
    /\ notion_requests = <<>>
    /\ notion_result = Absent

---------------------------------------------------------------------------
(* get_youtube_search_result: one action per stretch between two awaits *)

Init ==
    /\ pc = "idle"
    /\ api_key \in ApiKeys
    /\ search_calls = 0
    /\ search_error = NoError
    /\ catalog = <<>>
    /\ search_items = <<>>
    /\ potential_video_ids = <<>>
    /\ final_video_ids = <<>>
    /\ i = 0
    /\ batch_log = <<>>
    /\ result = NoResult
    /\ worker = "idle"
    /\ duration_str = <<>>
    /\ parsed = -1
    /\ BgmIdle
    /\ NotionIdle

\* the call ends with outcome r
Finish(r) ==
    /\ pc' = "done"
    /\ result' = r

\* lines 458 and 483: await asyncio.to_thread(request.execute); a thread runs
\* the request exactly while the coroutine waits for it
WorkerFollows ==
    worker' = IF pc' \in {"search", "detail"} THEN "running" ELSE "idle"

\* the request for the batch at offset is handed to the worker thread
\* (lines 477-483)
IssueBatch(ids, offset) ==
    batch_log' = Append(batch_log,
        [ids |-> BatchIds(ids, offset), outcome |-> "pending", items |-> <<>>])

\* the batch in flight is answered
CloseBatch(outcome, items) ==
    [batch_log EXCEPT ![Len(batch_log)] =
        [@ EXCEPT !.outcome = outcome, !.items = items]]

\* lines 438-439: no credential
CallWithoutKey ==
    /\ pc = "idle"
    /\ NotConfigured(api_key)
    /\ Finish(Returned(<<>>, MsgNoKey))
    /\ UNCHANGED <<bgmVars, notionVars>>
    /\ WorkerFollows
    /\ UNCHANGED <<api_key, search_calls, search_error, catalog, search_items,
                   potential_video_ids, final_video_ids, i, batch_log,
                   duration_str, parsed>>

\* lines 438-458: the client is built and the search request is executed
CallIssuesSearchAlways ==
    /\ pc = "idle"
    /\ pc' = "search"
    /\ search_calls' = search_calls + 1
    /\ UNCHANGED <<bgmVars, notionVars>>
    /\ WorkerFollows
    /\ UNCHANGED <<api_key, search_error, catalog, search_items, potential_video_ids,
                   final_video_ids, i, batch_log, result, duration_str, parsed>>
CallIssuesSearch ==
    /\ pc = "idle"
    /\ ~NotConfigured(api_key)
    /\ pc' = "search"
    /\ search_calls' = search_calls + 1
    /\ UNCHANGED <<bgmVars, notionVars>>
    /\ WorkerFollows
    /\ UNCHANGED <<api_key, search_error, catalog, search_items, potential_video_ids,
                   final_video_ids, i, batch_log, result, duration_str, parsed>>

\* lines 447-448: building the client raises
CallBuildFails ==
    /\ pc = "idle"
    /\ ~NotConfigured(api_key)
    /\ \E e \in OtherErrors : Finish(OuterHandler(e))
    /\ UNCHANGED <<bgmVars, notionVars>>
    /\ WorkerFollows
    /\ UNCHANGED <<api_key, search_calls, search_error, catalog, search_items,
                   potential_video_ids, final_video_ids, i, batch_log,
                   duration_str, parsed>>

\* line 458 raises: the search request failed
SearchFails ==
    /\ pc = "search"
    /\ \E e \in HttpErrors \cup OtherErrors :
        /\ search_error' = e
        /\ Finish(OuterHandler(e))
    /\ UNCHANGED <<bgmVars, notionVars>>
    /\ WorkerFollows
    /\ UNCHANGED <<api_key, search_calls, catalog, search_items,
                   potential_video_ids, final_video_ids, i, batch_log,
                   duration_str, parsed>>

\* lines 458-483: the search answers; keyword screen; then either a return
\* (nothing left, or a malformed item) or the first detail request
SearchAnswers ==
    /\ pc = "search"
    /\ \E cat \in Catalogues :
        LET items == SearchItems(cat)
            ids == KeywordScreen(items)
        IN  /\ catalog' = cat
            /\ search_items' = items
            /\ IF ScreenRaises(items)
               THEN /\ Finish(OuterHandler(KeyErrorOf("title")))
                    /\ UNCHANGED <<potential_video_ids, batch_log>>
               ELSE IF ids = <<>>
               THEN /\ Finish(Returned(<<>>, MsgNoNonPlaylist))
                    /\ potential_video_ids' = ids
                    /\ UNCHANGED batch_log
               ELSE /\ pc' = "detail"
                    /\ potential_video_ids' = ids
                    /\ IssueBatch(ids, 0)
                    /\ UNCHANGED result
    /\ UNCHANGED <<bgmVars, notionVars>>
    /\ WorkerFollows
    /\ UNCHANGED <<api_key, search_calls, search_error, final_video_ids, i,
                   duration_str, parsed>>

\* the loop moves on after the batch at offset i: the next request, or the
\* return of lines 513-516
NextBatch(final, log) ==
    IF i + BatchSize < Len(potential_video_ids)
    THEN /\ i' = i + BatchSize
         /\ batch_log' = Append(log,
               [ids |-> BatchIds(potential_video_ids, i + BatchSize),
                outcome |-> "pending", items |-> <<>>])
         /\ UNCHANGED <<pc, result>>
    ELSE /\ batch_log' = log
         /\ Finish(FinalResult(final))
         /\ UNCHANGED i

\* lines 483-506: a detail request answers and its items are filtered
DetailAnswers ==
    /\ pc = "detail"
    /\ \E items \in DetailResponses(catalog, batch_log[Len(batch_log)].ids) :
        LET final == final_video_ids \o FilterItems(items)
        IN  /\ final_video_ids' = final
            /\ NextBatch(final, CloseBatch("ok", items))
    /\ UNCHANGED <<bgmVars, notionVars>>
    /\ WorkerFollows
    /\ UNCHANGED <<api_key, search_calls, search_error, catalog, search_items,
                   potential_video_ids, duration_str, parsed>>

\* lines 508-510: HttpError of a detail request: it is printed and the batch
\* is skipped
DetailFailsHttp ==
    /\ pc = "detail"
    /\ NextBatch(final_video_ids, CloseBatch("http", <<>>))
    /\ UNCHANGED <<bgmVars, notionVars>>
    /\ WorkerFollows
    /\ UNCHANGED <<api_key, search_calls, search_error, catalog, search_items,
                   potential_video_ids, final_video_ids, duration_str, parsed>>

\* line 483 raises something that is no HttpError: the inner try does not
\* catch it and the outer handler (lines 522-524) ends the call
DetailFailsOther ==
    /\ pc = "detail"
    /\ \E e \in OtherErrors : Finish(OuterHandler(e))
    /\ batch_log' = CloseBatch("other", <<>>)
    /\ UNCHANGED <<bgmVars, notionVars>>
    /\ WorkerFollows
    /\ UNCHANGED <<api_key, search_calls, search_error, catalog, search_items,
                   potential_video_ids, final_video_ids, i, duration_str, parsed>>

\* line 487 raises: an item of the response has no "id"
DetailMalformed ==
    /\ pc = "detail"
    /\ Finish(OuterHandler(KeyErrorOf("id")))
    /\ batch_log' = CloseBatch("malformed", <<>>)
    /\ UNCHANGED <<bgmVars, notionVars>>
    /\ WorkerFollows
    /\ UNCHANGED <<api_key, search_calls, search_error, catalog, search_items,
                   potential_video_ids, final_video_ids, i, duration_str, parsed>>

Next ==
    \/ CallWithoutKey
    \/ CallIssuesSearch
    \/ CallBuildFails
    \/ SearchFails
    \/ SearchAnswers
    \/ DetailAnswers
    \/ DetailFailsHttp
    \/ DetailFailsOther
    \/ DetailMalformed

Spec == Init /\ [][Next]_vars

---------------------------------------------------------------------------
(* Cancellation of the task that runs get_youtube_search_result, by its
   caller or by a timeout around it (asyncio.wait_for cancels the task). *)

\* lines 458 and 483: CancelledError is raised at the await; neither handler
\* of lines 518-524 catches it, and the thread of asyncio.to_thread goes on
\* with the request
Cancel ==
    /\ pc \in {"search", "detail"}
    /\ Finish(OuterHandler(CancelledError))
    /\ UNCHANGED <<api_key, search_calls, search_error, catalog, search_items,
                   potential_video_ids, final_video_ids, i, batch_log,
                   duration_str, parsed, bgmVars, notionVars, worker>>

\* the request of the abandoned thread completes; nobody takes its response
WorkerRunsOut ==
    /\ pc = "done"
    /\ worker = "running"
    /\ worker' = "idle"
    /\ UNCHANGED <<pc, api_key, search_calls, search_error, catalog, search_items,
                   potential_video_ids, final_video_ids, i, batch_log, result,
                   duration_str, parsed, bgmVars, notionVars>>

NextCancel == Next \/ Cancel \/ WorkerRunsOut

SpecCancel == Init /\ [][NextCancel]_vars

---------------------------------------------------------------------------
(* recommend_bgm_for_summary (lines 368-406), the caller of the search
   routine.  ctx.info and ctx.error are calls into the host framework and
   are taken to return. *)

Summaries == {"calm evening", "rainy day"}

\* line 380: f"{emotion_summary} ..."
SearchQueryOf(summary) == <<summary, " (songs to listen to at such a time)">>

\* line 397: the iframe around the selected identifier
IframeOpen == "<iframe src=https://www.youtube.com/embed/"
IframeClose == " title=YouTube video player allowfullscreen></iframe>"
EmbedOf(video_id) == <<IframeOpen, video_id, IframeClose>>

\* lines 387-390: the text returned when the list is empty
SearchFailureTextUnknown(message) == <<"YouTube search failed: ", "unknown error">>
SearchFailureText(message) ==
    <<"YouTube search failed: ">>
        \o (IF message # Absent /\ message # <<>> THEN message ELSE <<"unknown error">>)

\* lines 386-402: the value returned for the pair the search routine
\* returned and the element random.choice selected
RecommendResult(video_ids, message, query, selected) ==
    IF video_ids = <<>>
    THEN [kind |-> "dict", youtube_iframe |-> SearchFailureText(message),
          search_query |-> query]
    ELSE [kind |-> "dict", youtube_iframe |-> EmbedOf(selected),
          search_query |-> query]

\* lines 376-384: the tool has composed its query and calls the search
\* routine with YOUTUBE_API_KEY
InitBgm ==
    /\ pc = "idle"
    /\ api_key \in ApiKeys
    /\ search_calls = 0
    /\ search_error = NoError
    /\ catalog = <<>>
    /\ search_items = <<>>
    /\ potential_video_ids = <<>>
    /\ final_video_ids = <<>>
    /\ i = 0
    /\ batch_log = <<>>
    /\ result = NoResult
    /\ worker = "idle"
    /\ duration_str = <<>>
    /\ parsed = -1
    /\ emotion_summary \in Summaries
    /\ search_query = SearchQueryOf(emotion_summary)
    /\ bgm_result = NoResult
    /\ NotionIdle

\* lines 384-402: the search routine has returned; an element is drawn and
\* the answer is rendered
RecommendRenders ==
    /\ pc = "done"
    /\ result.kind = "returned"
    /\ bgm_result = NoResult
    /\ \E selected \in (IF result.ids = <<>> THEN {Absent} ELSE Range(result.ids)) :
          bgm_result' = RecommendResult(result.ids, result.message, search_query, selected)
    /\ UNCHANGED <<pc, api_key, search_calls, search_error, catalog, search_items,
                   potential_video_ids, final_video_ids, i, batch_log, result,
                   duration_str, parsed, emotion_summary, search_query, notionVars, worker>>

\* lines 404-406 catch what the calls above raise; the search routine
\* raises nothing (lines 518-524), so that handler is never entered.
NextBgm == Next \/ RecommendRenders

SpecBgm == InitBgm /\ [][NextBgm]_vars

---------------------------------------------------------------------------
(* add_notion_page (mymcp.py lines 108-167, mymcpJp.py lines 93-157): the
   two modules hold the same statements and differ in the language of the
   texts they return. *)

\* line 40 (mymcpJp.py line 24); the last value is three Hangul syllables
ALLOWED_STATUS_VALUES == <<"NY", "NG", "BK", "QA", "OK", "U+C9C4 U+D589 U+C911">>

NoneArg == "<None>"

\* the property names of lines 130-133 and 139, by code point
TitleProp == "U+C81C U+BAA9"
TextProp == "U+D14D U+C2A4 U+D2B8"
DateProp == "U+B0A0 U+C9DC"
StatusProp == "U+C0C1 U+D0DC"
AssigneeProp == "U+B2F4 U+B2F9 U+C790"

NotionModules == {"mymcp", "mymcpJp"}
NotionTitles == {"write report", ""}
NotionStatuses == {NoneArg} \cup Range(ALLOWED_STATUS_VALUES) \cup {"", "ny", "Done"}
NotionAssignees == {NoneArg, "", "Kim"}
NotionArgs ==
    [module : NotionModules, title : NotionTitles, text : {"draft"},
     date : {"2025-05-01"}, status : NotionStatuses, assignee : NotionAssignees]

\* line 126: final_state in ALLOWED_STATUS_VALUES (membership in a list)
StatusAllowed(final_state) == final_state \in Range(ALLOWED_STATUS_VALUES)

\* line 124
FinalStateAsGiven(status) == status
FinalState(status) == IF status # NoneArg THEN status ELSE "NY"

\* lines 126-127
RejectText(module, final_state) ==
    <<IF module = "mymcp" THEN "add failed (ko): status must be one of "
                          ELSE "add failed (ja): status must be one of ">>
        \o ALLOWED_STATUS_VALUES \o <<"; given: ", final_state>>

\* lines 129-139
PropertiesPayload(args) ==
    LET base == [name \in {TitleProp, TextProp, DateProp, StatusProp} |->
                    CASE name = TitleProp -> [title |-> args.title]
                      [] name = TextProp -> [rich_text |-> args.text]
                      [] name = DateProp -> [date |-> args.date]
                      [] OTHER -> [status |-> FinalState(args.status)]]
    IN IF args.assignee # NoneArg
       THEN [name \in DOMAIN base \cup {AssigneeProp} |->
                IF name = AssigneeProp THEN [rich_text |-> args.assignee] ELSE base[name]]
       ELSE base

\* lines 141-144
RequestData(args) == [parent |-> "DATABASE_ID", properties |-> PropertiesPayload(args)]

\* lines 152-153
SuccessText(args) ==
    <<IF args.module = "mymcp" THEN "registered (ko), status: " ELSE "registered (ja), status: ",
      FinalState(args.status),
      IF args.assignee # NoneArg THEN "assignee given" ELSE "assignee not set",
      IF args.assignee # NoneArg THEN args.assignee ELSE "">>

NotionStatusCodes == {"400", "401"}

InitNotion ==
    /\ pc = "unused"
    /\ api_key = NoneKey
    /\ search_calls = 0
    /\ search_error = NoError
    /\ catalog = <<>>
    /\ search_items = <<>>
    /\ potential_video_ids = <<>>
    /\ final_video_ids = <<>>
    /\ i = 0
    /\ batch_log = <<>>
    /\ result = NoResult
    /\ worker = "idle"
    /\ duration_str = <<>>
    /\ parsed = -1
    /\ BgmIdle
    /\ notion_pc = "idle"
    /\ notion_args \in NotionArgs
    /\ notion_requests = <<>>
    /\ notion_result = Absent

NotionPipelineUnchanged ==
    UNCHANGED <<pc, api_key, search_calls, search_error, catalog, search_items,
                potential_video_ids, final_video_ids, i, batch_log, result,
                duration_str, parsed, bgmVars, notion_args, worker>>

\* lines 124-127: the effective status is not allowed
NotionRejects ==
    /\ notion_pc = "idle"
    /\ ~StatusAllowed(FinalState(notion_args.status))
    /\ notion_result' = RejectText(notion_args.module, FinalState(notion_args.status))
    /\ notion_pc' = "done"
    /\ UNCHANGED notion_requests
    /\ NotionPipelineUnchanged

\* lines 124-148: the request is composed and posted
NotionPosts ==
    /\ notion_pc = "idle"
    /\ StatusAllowed(FinalState(notion_args.status))
    /\ notion_requests' = Append(notion_requests, RequestData(notion_args))
    /\ notion_pc' = "posting"
    /\ UNCHANGED notion_result
    /\ NotionPipelineUnchanged

\* lines 148-153
NotionSucceeds ==
    /\ notion_pc = "posting"
    /\ notion_result' = SuccessText(notion_args)
    /\ notion_pc' = "done"
    /\ UNCHANGED notion_requests
    /\ NotionPipelineUnchanged

\* lines 149, 155-163: raise_for_status raised
NotionHttpStatusError ==
    /\ notion_pc = "posting"
    /\ \E code \in NotionStatusCodes :
          notion_result' = <<"add failed, status code ", code, "; data sent: ">>
                              \o <<PropertiesPayload(notion_args)>>
    /\ notion_pc' = "done"
    /\ UNCHANGED notion_requests
    /\ NotionPipelineUnchanged

\* lines 148, 164-167: the post raised
NotionRequestError ==
    /\ notion_pc = "posting"
    /\ \E kind \in {"network error: ", "unexpected error: "} :
          notion_result' = <<"add failed, ", kind, "connection refused">>
    /\ notion_pc' = "done"
    /\ UNCHANGED notion_requests
    /\ NotionPipelineUnchanged

NextNotion ==
    \/ NotionRejects
    \/ NotionPosts
    \/ NotionSucceeds
    \/ NotionHttpStatusError
    \/ NotionRequestError

SpecNotion == InitNotion /\ [][NextNotion]_vars

---------------------------------------------------------------------------
(* parse_iso8601_duration as a pure function: its inputs are enumerated *)

\* the digits that the enumerated components are written with
ComponentDigits == {"0", "3"}

\* the decimal strings of 1..MaxDigits digits
RECURSIVE DigitStrings(_)
DigitStrings(n) ==
    IF n = 0 THEN {<<>>}
    ELSE {<<d>> \o t : d \in ComponentDigits, t \in DigitStrings(n - 1)}
Numbers == UNION {DigitStrings(n) : n \in 1..MaxDigits}

\* an optional component nX: the empty string or a number and its unit
Component(unit) == {<<>>} \cup {n \o <<unit>> : n \in Numbers}

\* every string P[nD]T[nH][nM][nS] over Numbers
GrammarStrings ==
    { <<"P">> \o d \o <<"T">> \o h \o m \o sc :
        d \in Component("D"), h \in Component("H"),
        m \in Component("M"), sc \in Component("S") }

\* the durations of the documented examples
PT1H2M3S == <<"P","T","1","H","2","M","3","S">>
P1DT0H == <<"P","1","D","T","0","H">>
ExampleStrings == {PT3M30S, PT5M, PT1H2M3S, P0DT3M30S, P1DT0H, PT3M, PT2M59S, PT5M1S}

DurationInputs == GrammarStrings \cup ExampleStrings

InitParse ==
    /\ pc = "parse"
    /\ duration_str \in DurationInputs
    /\ parsed = -1
    /\ api_key = ""
    /\ search_calls = 0
    /\ search_error = NoError
    /\ catalog = <<>>
    /\ search_items = <<>>
    /\ potential_video_ids = <<>>
    /\ final_video_ids = <<>>
    /\ i = 0
    /\ batch_log = <<>>
    /\ result = NoResult
    /\ worker = "idle"
    /\ BgmIdle
    /\ NotionIdle

\* the function is applied to the input
ParseCall ==
    /\ pc = "parse"
    /\ parsed' = parse_iso8601_duration(duration_str)
    /\ pc' = "parsed"
    /\ UNCHANGED <<bgmVars, notionVars, worker>>
    /\ UNCHANGED <<api_key, search_calls, search_error, catalog, search_items,
                   potential_video_ids, final_video_ids, i, batch_log, result,
                   duration_str>>

NextParse == ParseCall

SpecParse == InitParse /\ [][NextParse]_vars

\* inputs that are missing, empty, or no duration as a whole: a duration
\* followed or preceded by another character, one without its T, one in
\* lower case
MalformedStrings ==
    {Absent, <<>>, NotADuration, <<"P","3","D">>, <<"p","t","3","m">>, <<"P","T","3","S","3","M">>}
        \cup {g \o <<"X">> : g \in GrammarStrings \cup ExampleStrings}
        \cup {<<"X">> \o g : g \in ExampleStrings}

InitParseAny ==
    /\ pc = "parse"
    /\ duration_str \in DurationInputs \cup MalformedStrings
    /\ parsed = -1
    /\ api_key = ""
    /\ search_calls = 0
    /\ search_error = NoError
    /\ catalog = <<>>
    /\ search_items = <<>>
    /\ potential_video_ids = <<>>
    /\ final_video_ids = <<>>
    /\ i = 0
    /\ batch_log = <<>>
    /\ result = NoResult
    /\ worker = "idle"
    /\ BgmIdle
    /\ NotionIdle

SpecParseAny == InitParseAny /\ [][NextParse]_vars

---------------------------------------------------------------------------
(* What the claims speak about *)

Done == pc = "done"
ReturnedIds == IF result.kind = "returned" THEN result.ids ELSE <<>>

\* a title holds a denylist keyword, letters compared without regard to case
FoldedKeywords == {Lower(PLAYLIST_KEYWORDS[k]) : k \in DOMAIN PLAYLIST_KEYWORDS}
HasKeywordIgnoringCase(title) ==
    LET folded == Lower(title)
    IN  \E keyword \in FoldedKeywords : Contains(folded, keyword)

\* the seconds of a duration and the views of the entry ranked id, as the
\* detail provider reports them (-1: not reported or not a number)
SecondsOf(id) == parse_iso8601_duration(catalog[id].duration)
ViewsOf(id) ==
    IF Truthy(catalog[id].viewCount) /\ IntParses(catalog[id].viewCount)
    THEN IntValue(catalog[id].viewCount) ELSE -1

\* every identifier that was put into a detail request
RequestedIds == UNION {Range(batch_log[b].ids) : b \in DOMAIN batch_log}

\* every item the detail provider answered with, batch after batch
RECURSIVE AnsweredFrom(_)
AnsweredFrom(b) ==
    IF b > Len(batch_log) THEN <<>>
    ELSE batch_log[b].items \o AnsweredFrom(b + 1)
AnsweredIds ==
    UNION { {batch_log[b].items[k].id : k \in DOMAIN batch_log[b].items} :
              b \in DOMAIN batch_log }

\* an entry of the search response that qualifies: a video without a keyword
\* in its title, for which a detail response reported a duration within
\* 180..300 seconds and at least 10000 views
Qualifies(p) ==
    /\ search_items[p].kind = VideoKind
    /\ ~HasKeywordIgnoringCase(search_items[p].title)
    /\ p \in AnsweredIds
    /\ Truthy(catalog[p].duration) /\ Truthy(catalog[p].viewCount)
    /\ 180 <= SecondsOf(p) /\ SecondsOf(p) <= 300
    /\ ViewsOf(p) >= 10000

\* the qualifying entries in the order of the search response, from rank p on
RECURSIVE QualifyingFrom(_)
QualifyingFrom(p) ==
    IF p > Len(search_items) THEN <<>>
    ELSE IF Qualifies(p) THEN <<p>> \o QualifyingFrom(p + 1)
    ELSE QualifyingFrom(p + 1)

\* the qualifying items of the batches that were answered, in answer order
AnsweredQualifying == FilterItems(AnsweredFrom(1))

AllBatchesAnswered ==
    \A b \in DOMAIN batch_log : batch_log[b].outcome = "ok"
SomeBatchFailed ==
    \E b \in DOMAIN batch_log : batch_log[b].outcome \in {"http", "other"}

\* ceil(n / BatchSize)
BatchCount(n) == (n + BatchSize - 1) \div BatchSize

---------------------------------------------------------------------------
(* The claims *)

\* C1: every identifier the call returns passed all three filters: no
\* denylist keyword in its title, a parsed duration d with 180 <= d <= 300,
\* and a view count v >= 10000.
C1_ReturnedPassedFilters ==
    \A k \in DOMAIN ReturnedIds :
        LET id == ReturnedIds[k]
        IN  /\ ~HasKeywordIgnoringCase(search_items[id].title)
            /\ 180 <= SecondsOf(id) /\ SecondsOf(id) <= 300
            /\ ViewsOf(id) >= 10000

\* a call that returned an entry of exactly 180 s and 10000 views and left
\* out an entry of 301 s
C1_Witness ==
    /\ Done /\ ReturnedIds # <<>>
    /\ \E k \in DOMAIN ReturnedIds :
          SecondsOf(ReturnedIds[k]) = 180 /\ ViewsOf(ReturnedIds[k]) = 10000
    /\ \E p \in AnsweredIds : SecondsOf(p) = 301 /\ p \notin Range(ReturnedIds)

\* C2 (as claimed): when every detail batch succeeds the returned list is the
\* first min(5, k) of the k qualifying candidates in the order of the search
\* response, whatever the order of the items in the detail responses.
C2_SearchOrderKept ==
    (Done /\ result.kind = "returned" /\ batch_log # <<>> /\ AllBatchesAnswered)
        => ReturnedIds = Take(QualifyingFrom(1), 5)

\* C3: the returned list never has more than 5 entries.
C3_AtMostFive == Len(ReturnedIds) <= 5

\* more than 5 entries survived the filters and 5 were returned
C3_Witness == Done /\ Len(final_video_ids) > 5 /\ Len(ReturnedIds) = 5

\* C4: on every return path the diagnostic is present exactly when the
\* returned list is empty.
C4_DiagnosticIffEmpty ==
    /\ Done => result.kind = "returned"
    /\ result.kind = "returned" =>
          ((result.message # Absent) <=> (result.ids = <<>>))

\* a call that returned identifiers and no diagnostic after a batch that
\* contributed nothing had been skipped
C4_Witness ==
    /\ Done /\ ReturnedIds # <<>> /\ result.message = Absent
    /\ \E b \in DOMAIN batch_log : batch_log[b].outcome = "http"

\* C5: without a credential the call returns the empty list and the
\* configuration diagnostic, and neither a search nor a detail request is made.
C5_NoCredentialNoCall ==
    (api_key = NoneKey \/ api_key = "") =>
        /\ search_calls = 0
        /\ batch_log = <<>>
        /\ Done => result = Returned(<<>>, MsgNoKey)

C5_Witness == Done /\ api_key = "" /\ result.kind = "returned"

\* C6: when the search request fails the call returns the empty list with a
\* diagnostic that carries the error detail, makes no detail request and
\* raises nothing.
C6_SearchFailureReported ==
    (Done /\ search_error # NoError) =>
        /\ result.kind = "returned"
        /\ result.ids = <<>>
        /\ result.message # Absent
        /\ IF search_error.type = "HttpError"
           THEN {search_error.status, search_error.content} \subseteq Range(result.message)
           ELSE search_error.text \in Range(result.message)
        /\ batch_log = <<>>

\* a search that failed with a quota error
C6_Witness ==
    /\ Done /\ search_error # NoError
    /\ search_error.type = "HttpError" /\ search_error.content = "quotaExceeded"

\* C7: a search result whose title holds a denylist keyword in any casing is
\* never put into a detail request and never returned.
C7_PlaylistNeverLookedUp ==
    LET lookedUp == RequestedIds \cup Range(ReturnedIds)
    IN  \A p \in DOMAIN search_items :
            (search_items[p].title # Absent
                /\ HasKeywordIgnoringCase(search_items[p].title))
            => p \notin lookedUp

\* a call that returned identifiers although the search also listed a title
\* with the keyword in capitals
C7_Witness ==
    /\ Done /\ ReturnedIds # <<>>
    /\ \E p \in DOMAIN search_items : search_items[p].title = TitleMixUpper

\* C8 (as claimed): when a detail batch fails, the other batches are still
\* requested and the qualifying candidates of the batches that succeeded are
\* returned, up to 5.
C8_FailedBatchOnlySkipped ==
    (Done /\ SomeBatchFailed) =>
        /\ Len(batch_log) = BatchCount(Len(potential_video_ids))
        /\ result.kind = "returned"
        /\ result.ids = Take(AnsweredQualifying, 5)

\* C9: no fault escapes the call: whatever the providers do, the call ends by
\* returning a (list, diagnostic) pair, and until it has ended it can go on.
C9_NothingRaised ==
    /\ result.kind # "raised"
    /\ Done => result.kind = "returned"
    /\ ~Done => ENABLED (CallWithoutKey \/ CallIssuesSearch \/ SearchFails
                            \/ DetailFailsHttp)

\* a call that ended in the outer handler because a detail response was
\* malformed
C9_Witness ==
    /\ Done /\ result.kind = "returned"
    /\ batch_log # <<>> /\ batch_log[Len(batch_log)].outcome = "malformed"

\* the sum days*86400 + hours*3600 + minutes*60 + seconds of a string
\* P[nD]T[nH][nM][nS], an absent component counting as 0
ComponentSum(s) ==
    LET mt == DurationMatch(s)
    IN  GroupValue(mt.days) * 86400 + GroupValue(mt.hours) * 3600
            + GroupValue(mt.minutes) * 60 + GroupValue(mt.seconds)

\* C10 (as claimed): for every string of the form P[nD]T[nH][nM][nS] the
\* parser returns the sum of its components.
C10_SumOfComponents ==
    pc = "parsed" => parsed = ComponentSum(duration_str)

\* the whole of s is a duration P[nD]T[nH][nM][nS]
WholeMatch(s) ==
    LET mt == DurationMatch(s)
    IN  mt.matched /\ mt.end = Len(s) + 1

\* C11 (as claimed): the parser returns 0 for every input that is missing,
\* empty, or no duration as a whole string, and never a negative number.
C11_ZeroUnlessWholeMatch ==
    pc = "parsed" =>
        /\ parsed >= 0
        /\ (duration_str = Absent \/ duration_str = <<>> \/ ~WholeMatch(duration_str))
              => parsed = 0

\* the stage at which a call that returned the empty list ran out of
\* candidates
EmptyStage ==
    IF api_key = NoneKey \/ api_key = "" THEN "no credential"
    ELSE IF search_error # NoError \/ search_calls = 0 \/ ScreenRaises(search_items)
    THEN "search failed"
    ELSE IF search_items = <<>> THEN "search returned no items"
    ELSE IF potential_video_ids = <<>> THEN "all screened out"
    ELSE "none met the thresholds"

\* the stage that a diagnostic names, by the text it is
NamedStage(message) ==
    IF message = MsgNoKey THEN "no credential"
    ELSE IF message = MsgNoNonPlaylist THEN "all screened out"
    ELSE IF message = MsgNoneQualifies THEN "none met the thresholds"
    ELSE IF Head(message) \in {"YouTube API error: ", "Error during YouTube search: "}
    THEN "search failed"
    ELSE "unknown"

\* C12 (as claimed): the diagnostic of an empty result tells the stage that
\* produced zero candidates, each of the five stages having a diagnostic
\* that no other stage gives.
C12_DiagnosticTellsStage ==
    (Done /\ result.kind = "returned" /\ result.ids = <<>>)
        => NamedStage(result.message) = EmptyStage

\* C13: after a non-empty list the tool renders an embed of an element of
\* that list; after an empty list it renders no embed and returns the search
\* failure text with the diagnostic; either way it returns the query that
\* was submitted.
C13_EmbedFromList ==
    bgm_result # NoResult =>
        /\ bgm_result.kind = "dict"
        /\ bgm_result.search_query = search_query
        /\ search_query = <<emotion_summary, " (songs to listen to at such a time)">>
        /\ IF result.ids # <<>>
           THEN /\ Len(bgm_result.youtube_iframe) = 3
                /\ bgm_result.youtube_iframe[1] = IframeOpen
                /\ bgm_result.youtube_iframe[2] \in Range(result.ids)
           ELSE /\ IframeOpen \notin Range(bgm_result.youtube_iframe)
                /\ bgm_result.youtube_iframe
                      = <<"YouTube search failed: ">> \o result.message

\* an embed of the third identifier of a returned list
C13_Witness ==
    /\ bgm_result # NoResult
    /\ Len(result.ids) >= 3
    /\ bgm_result.youtube_iframe[2] = result.ids[3]

\* C14: add_notion_page uses "NY" when no status is given; an effective
\* status outside the allowed values gives a failure message and no request;
\* every request sent carries an allowed status, and an assignee property
\* only when an assignee was given.
C14_OnlyAllowedStatusSent ==
    LET allowed == {"NY", "NG", "BK", "QA", "OK", "U+C9C4 U+D589 U+C911"}
        effective == IF notion_args.status = NoneArg THEN "NY" ELSE notion_args.status
    IN notion_pc \in {"posting", "done"} =>
        /\ Len(notion_requests) <= 1
        /\ \A k \in DOMAIN notion_requests :
              LET properties == notion_requests[k].properties
              IN /\ properties[StatusProp].status \in allowed
                 /\ properties[StatusProp].status = effective
                 /\ AssigneeProp \in DOMAIN properties
                       => /\ notion_args.assignee # NoneArg
                          /\ properties[AssigneeProp].rich_text = notion_args.assignee
        /\ notion_args.status = NoneArg
              => /\ Len(notion_requests) = 1
                 /\ notion_requests[1].properties[StatusProp].status = "NY"
        /\ effective \notin allowed
              => /\ notion_requests = <<>>
                 /\ notion_pc = "done"
                 /\ notion_result[1] \in {"add failed (ko): status must be one of ",
                                          "add failed (ja): status must be one of "}

\* a request sent with the default status and with an assignee property
C14_Witness ==
    /\ notion_pc = "done"
    /\ notion_args.status = NoneArg
    /\ notion_args.assignee = "Kim"
    /\ Len(notion_requests) = 1
    /\ notion_requests[1].properties[StatusProp].status = "NY"
    /\ AssigneeProp \in DOMAIN notion_requests[1].properties

\* the slices of at most BatchSize consecutive identifiers of the candidates
ExpectedBatches ==
    [b \in 1..BatchCount(Len(potential_video_ids)) |->
        BatchIds(potential_video_ids, (b - 1) * BatchSize)]

\* C15 (as claimed): a call with a credential issues exactly one search
\* call, before any detail call; detail calls are issued only when a
\* candidate survived the keyword screen; the c candidates are split into
\* ceil(c/50) batches of at most 50, each candidate in exactly one batch, and
\* each batch is requested exactly once.
C15_EveryBatchRequestedOnce ==
    /\ search_calls <= 1
    /\ batch_log # <<>> => (search_calls = 1 /\ potential_video_ids # <<>>)
    /\ \A b \in DOMAIN batch_log :
          /\ b <= BatchCount(Len(potential_video_ids))
          /\ batch_log[b].ids = ExpectedBatches[b]
          /\ Len(batch_log[b].ids) \in 1..BatchSize
    /\ (Done /\ ~NotConfigured(api_key)) =>
          /\ search_calls = 1
          /\ search_error = NoError =>
                /\ Len(batch_log) = BatchCount(Len(potential_video_ids))
                /\ \A p \in DOMAIN potential_video_ids :
                      \E b \in DOMAIN batch_log :
                          /\ Contains(batch_log[b].ids, <<potential_video_ids[p]>>)
                          /\ \A c \in DOMAIN batch_log :
                                Contains(batch_log[c].ids, <<potential_video_ids[p]>>)
                                    => c = b

\* an item of a detail response that lacks a field, whose duration is no
\* duration as a whole string, or whose view count is no integer
Unusable(item) ==
    \/ ~Truthy(item.duration)
    \/ ~Truthy(item.viewCount)
    \/ ~WholeMatch(item.duration)
    \/ ~IntParses(item.viewCount)

\* the usable items, of those given, that are within the thresholds
RECURSIVE UsableQualifying(_)
UsableQualifying(items) ==
    IF items = <<>> THEN <<>>
    ELSE LET item == Head(items)
         IN IF /\ ~Unusable(item)
               /\ 180 <= parse_iso8601_duration(item.duration)
               /\ parse_iso8601_duration(item.duration) <= 300
               /\ IntValue(item.viewCount) >= 10000
            THEN <<item.id>> \o UsableQualifying(Tail(items))
            ELSE UsableQualifying(Tail(items))

\* C16 (as claimed): an item without a duration or a view count, with a
\* malformed duration, or with a view count that is no integer is left out
\* on its own; the other items of its batch and of the later batches are
\* still evaluated and, if they qualify, returned.
C16_UnusableItemLeftOutAlone ==
    (Done /\ batch_log # <<>> /\ AllBatchesAnswered) =>
        LET answered == AnsweredFrom(1)
        IN /\ result.kind = "returned"
           /\ \A k \in DOMAIN answered :
                 Unusable(answered[k]) => answered[k].id \notin Range(result.ids)
           /\ result.ids = Take(UsableQualifying(answered), 5)

\* C17 (as claimed): when the call is cancelled or times out while a search
\* or detail request is in flight, the request is abandoned and the call
\* ends with the empty list and a diagnostic: no cancellation is raised and
\* no request is left running.
C17_CancelledEndsEmptyWithDiagnostic ==
    [][Cancel =>
          /\ result'.kind = "returned"
          /\ result'.ids = <<>>
          /\ result'.message # Absent
          /\ worker' = "idle"]_vars

============================================================================
